---- MODULE Spec2Model ----
(***************************************************************************)
(* Default-dtype resolution of ivy/functional/ivy/data_type.py: the three  *)
(* process-wide default stacks, their scoped guards, the default queries   *)
(* with their literal-magnitude inference, and the per-function dtype      *)
(* support queries.                                                        *)
(***************************************************************************)
EXTENDS Integers, Sequences, FiniteSets, TLC

VARIABLES default_dtype_stack, default_float_dtype_stack,
          default_int_dtype_stack, backend, scopes, exc, last

vars == <<default_dtype_stack, default_float_dtype_stack,
          default_int_dtype_stack, backend, scopes, exc, last>>

stacks == <<default_dtype_stack, default_float_dtype_stack,
            default_int_dtype_stack>>

\* ------------------------------------------------------------------ bounds

\* Largest total number of elements held by the three stacks together.
MaxDepth == 3

\* ------------------------------------------------- dtype representation

\* A dtype value: form "ivy" (canonical string), "native" (backend handle),
\* "str" (a string that names no dtype), "none" (Python None) or "raise"
\* (the call raised; name is the exception).
Ivy(n) == [form |-> "ivy", name |-> n]

Native(n) == [form |-> "native", name |-> n]

None == [form |-> "none", name |-> ""]

Raise(e) == [form |-> "raise", name |-> e]

IsRaise(d) == d.form = "raise"

AllDtypeNames ==
    {"int8", "int16", "int32", "int64", "uint8", "uint16", "uint32", "uint64",
     "bfloat16", "float16", "float32", "float64", "bool"}

\* ivy.exists(x): x is not None.
exists(x) == x.form # "none"

\* ivy.as_ivy_dtype: native handle or canonical string -> canonical string;
\* canonical input is returned unchanged; anything else fails.
as_ivy_dtype(d) ==
    IF d.form = "raise" THEN d
    ELSE IF d.form \in {"ivy", "native"} /\ d.name \in AllDtypeNames
         THEN Ivy(d.name)
         ELSE Raise("DtypeError")

\* ivy.as_native_dtype: canonical string or native handle -> native handle.
as_native_dtype(d) ==
    IF d.form = "raise" THEN d
    ELSE IF d.form \in {"ivy", "native"} /\ d.name \in AllDtypeNames
         THEN Native(d.name)
         ELSE Raise("DtypeError")

\* ivy.Dtype / ivy.IntDtype / ivy.FloatDtype: string subclasses that keep
\* the canonical name they wrap.
IntDtype(d) == d

FloatDtype(d) == d

\* "int" in name: true of the signed and of the unsigned integer names.
NameHasInt(n) ==
    n \in {"int8", "int16", "int32", "int64",
           "uint8", "uint16", "uint32", "uint64"}

\* "float" in name: true of bfloat16 as well.
NameHasFloat(n) == n \in {"bfloat16", "float16", "float32", "float64"}

\* ------------------------------------------------------- the three stacks

\* Dtype arguments handed to the set_default_* functions and to the guards.
SetArgs == {Ivy("int64"), Ivy("float64"), Native("float64"),
            [form |-> "str", name |-> "bogus"]}

StackKinds == {"dtype", "float", "int"}

TotalDepth ==
    Len(default_dtype_stack) + Len(default_float_dtype_stack)
        + Len(default_int_dtype_stack)

Top(s) == s[Len(s)]

Pop(s) == SubSeq(s, 1, Len(s) - 1)

\* ------------------------------------------------- representative values

\* A representative value handed to a default query as input / item:
\*   kind "none"          Python None
\*   kind "native_array"  an array of the backend, dt its dtype name
\*   kind "ndarray"       a numpy array, dt its dtype name
\*   kind "list"          a list / tuple / dict, elems its elements
\*   kind "number"        sub "int": sign neg, magnitude mag in base-10^9
\*                                   limbs, most significant first
\*                        sub "float": sign neg, value m * 10^(exp-7) with
\*                                   m the 8-digit decimal mantissa (mag = <<m>>),
\*                                   exp = floor(log10(abs(value)))
\*                        sub "inf", "nan"
\*   kind "str"           a value of any other kind
Val(k, s, n, m, e, d, el) ==
    [kind |-> k, sub |-> s, neg |-> n, mag |-> m, exp |-> e, dt |-> d,
     elems |-> el]

NoneV == Val("none", "", FALSE, <<>>, 0, "", <<>>)

IntV(n, m) == Val("number", "int", n, m, 0, "", <<>>)

FloatV(n, m, e) == Val("number", "float", n, <<m>>, e, "", <<>>)

InfV(n) == Val("number", "inf", n, <<>>, 0, "", <<>>)

NanV == Val("number", "nan", FALSE, <<>>, 0, "", <<>>)

ListV(el) == Val("list", "", FALSE, <<>>, 0, "", el)

NativeArrayV(d) == Val("native_array", "", FALSE, <<>>, 0, d, <<>>)

NdArrayV(d) == Val("ndarray", "", FALSE, <<>>, 0, d, <<>>)

StrV == Val("str", "", FALSE, <<>>, 0, "", <<>>)

\* ---- arithmetic on base-10^9 limbs (Python integers are unbounded)

RECURSIVE Pow10(_)
Pow10(k) == IF k = 0 THEN 1 ELSE 10 * Pow10(k - 1)

Limb == Pow10(9)

RECURSIVE PadLeft(_, _)
PadLeft(l, n) == IF Len(l) >= n THEN l ELSE PadLeft(<<0>> \o l, n)

RECURSIVE LexGt(_, _, _)
LexGt(a, b, i) ==
    IF i > Len(a) THEN FALSE
    ELSE IF a[i] # b[i] THEN a[i] > b[i]
    ELSE LexGt(a, b, i + 1)

LimbGt(a, b) ==
    LET n == IF Len(a) > Len(b) THEN Len(a) ELSE Len(b)
    IN  LexGt(PadLeft(a, n), PadLeft(b, n), 1)

LimbIsZero(l) == \A i \in 1..Len(l) : l[i] = 0

RECURSIVE HalveFrom(_, _, _)
HalveFrom(l, i, rem) ==
    IF i > Len(l) THEN <<>>
    ELSE LET cur == rem * Limb + l[i]
         IN  <<cur \div 2>> \o HalveFrom(l, i + 1, cur % 2)

\* bin(n) without its "0b", least significant bit first.
RECURSIVE Bits(_)
Bits(l) ==
    IF LimbIsZero(l) THEN <<>>
    ELSE <<l[Len(l)] % 2>> \o Bits(HalveFrom(l, 1, 0))

RECURSIVE Digits(_)
Digits(n) == IF n < 10 THEN 1 ELSE 1 + Digits(n \div 10)

RECURSIVE LimbDigits(_)
LimbDigits(l) ==
    IF l = <<>> THEN 1
    ELSE IF Head(l) = 0 THEN LimbDigits(Tail(l))
    ELSE Digits(Head(l)) + 9 * (Len(l) - 1)

\* ---- thresholds of the source, as integer limbs and as decimal floats

I64_MAX == [limbs |-> <<9, 223372036, 854775807>>, m |-> 92233720, exp |-> 18]

I32_MAX == [limbs |-> <<2, 147483647>>, m |-> 21474836, exp |-> 9]

F32_MAX == [limbs |-> <<340, 282350000, 0, 0, 0>>, m |-> 34028235, exp |-> 38]

\* Python's  x > T  for a number x and a threshold T.
NumGt(x, T) ==
    CASE x.sub = "int"   -> ~x.neg /\ LimbGt(x.mag, T.limbs)
      [] x.sub = "float" -> /\ ~x.neg
                            /\ x.mag[1] # 0
                            /\ \/ x.exp > T.exp
                               \/ x.exp = T.exp /\ x.mag[1] > T.m
      [] x.sub = "inf"   -> ~x.neg
      [] OTHER           -> FALSE

\* x != ivy.inf
NotInf(x) == ~(x.sub = "inf" /\ ~x.neg)

\* ---- ivy.nested_indices_where: truthy when a leaf of the nest satisfies
\* fn. A predicate yields "T", "F" or "E" (it raised); fn is the lambda as
\* a function on the leaves.

RECURSIVE Leaves(_)
Leaves(v) ==
    IF v.kind = "list"
    THEN UNION {Leaves(v.elems[i]) : i \in 1..Len(v.elems)}
    ELSE {v}

nested_indices_where(nest, fn) ==
    IF \E x \in Leaves(nest) : fn[x] = "E" THEN "E"
    ELSE IF \E x \in Leaves(nest) : fn[x] = "T" THEN "T"
    ELSE "F"

Tri(b) == IF b THEN "T" ELSE "F"

\* lambda x: x > 9223372036854775807 and x != ivy.inf
AboveI64(x) ==
    IF x.kind # "number" THEN "E" ELSE Tri(NumGt(x, I64_MAX) /\ NotInf(x))

\* lambda x: x > 2147483647 and x != ivy.inf
AboveI32(x) ==
    IF x.kind # "number" THEN "E" ELSE Tri(NumGt(x, I32_MAX) /\ NotInf(x))

\* ---- _check_float64

\* How str(input) is written: "int" (digits only), "fixed" (iii.fff),
\* "sci_dot" (d.ddde+XX) or "sci" (de+XX, no point). Python writes a float
\* in scientific notation when its exponent is below -4 or at least 16.
StrForm(x) ==
    IF x.sub = "int" THEN "int"
    ELSE IF x.exp >= -4 /\ x.exp < 16 THEN "fixed"
    ELSE IF x.mag[1] % Pow10(7) = 0 THEN "sci"
    ELSE "sci_dot"

\* int(tmp[0]) with tmp = str(input).replace("-", "").split("."), as limbs;
\* <<>> stands for the ValueError of int("1e+22").
IntPart(x) ==
    LET m == x.mag[1]
    IN  CASE StrForm(x) = "int"     -> x.mag
          [] StrForm(x) = "sci"     -> <<>>
          [] StrForm(x) = "sci_dot" -> <<m \div Pow10(7)>>
          [] OTHER ->
                IF x.exp < 0 THEN <<0>>
                ELSE IF x.exp <= 7 THEN <<m \div Pow10(7 - x.exp)>>
                ELSE <<m \div Pow10(16 - x.exp),
                       (m % Pow10(16 - x.exp)) * Pow10(x.exp - 7)>>

\* int(math.floor(math.log10(abs(input)))) if input != 0 else 0
Exponent(x) ==
    IF x.sub = "int"
    THEN (IF LimbIsZero(x.mag) THEN 0 ELSE LimbDigits(x.mag) - 1)
    ELSE (IF x.mag[1] = 0 THEN 0 ELSE x.exp)

\* len(mant) > 24 and int(mant[24:]) > 0, mant the binary digits of ip.
MantOverflows(ip) ==
    LET b == Bits(ip)
    IN  Len(b) > 24 /\ \E i \in 1..(Len(b) - 24) : b[i] = 1

check_float64(input) ==
    IF input.kind # "number" THEN "E"
    ELSE IF input.sub \in {"inf", "nan"} THEN "F"
    ELSE IF IntPart(input) = <<>> THEN "E"
    ELSE Tri(\/ NumGt(input, F32_MAX)
             \/ MantOverflows(IntPart(input))
             \/ Exponent(input) < -126
             \/ Exponent(input) > 127)

\* ---- is_int_dtype / is_float_dtype

\* On a dtype: "int" in as_ivy_dtype(dtype_in).
is_int_dtype(d) == NameHasInt(as_ivy_dtype(d).name)

is_float_dtype(d) == NameHasFloat(as_ivy_dtype(d).name)

\* On a representative value; "E" when the canonicalization of a value
\* that is no dtype raises.
is_int_dtype_of(v) ==
    CASE v.kind \in {"native_array", "ndarray"} -> Tri(NameHasInt(v.dt))
      [] v.kind = "number" -> Tri(v.sub = "int")
      [] v.kind = "list" ->
            Tri(\E x \in Leaves(v) : x.kind = "number" /\ x.sub = "int")
      [] OTHER -> "E"

is_float_dtype_of(v) ==
    CASE v.kind \in {"native_array", "ndarray"} -> Tri(NameHasFloat(v.dt))
      [] v.kind = "number" -> Tri(v.sub \in {"float", "inf", "nan"})
      [] v.kind = "list" ->
            Tri(\E x \in Leaves(v) :
                    x.kind = "number" /\ x.sub \in {"float", "inf", "nan"})
      [] OTHER -> "E"

\* ---- the default queries

\* ivy.default(as_native, False)
as_native_or_False(as_native) == IF as_native = "None" THEN "False" ELSE as_native

\* Faulty variant: the float stack is not consulted.
default_dtype_from_stacks_no_float(as_native) ==
    LET ret == IF default_dtype_stack = <<>>
               THEN Ivy("float32")
               ELSE Top(default_dtype_stack)
    IN  IF as_native = "True" THEN as_native_dtype(ret) ELSE as_ivy_dtype(ret)

\* default_dtype() past its dtype and item branches: the general stack,
\* then the float stack, then "float32".
default_dtype_from_stacks(as_native) ==
    LET ret == IF default_dtype_stack = <<>>
               THEN (IF default_float_dtype_stack # <<>>
                     THEN Top(default_float_dtype_stack)
                     ELSE Ivy("float32"))
               ELSE Top(default_dtype_stack)
    IN  IF as_native = "True" THEN as_native_dtype(ret) ELSE as_ivy_dtype(ret)

\* def_dtype = default_dtype(); ret = def_dtype if is_int_dtype else int32
int_ambient ==
    LET def_dtype == default_dtype_from_stacks("False")
    IN  IF is_int_dtype(def_dtype) THEN def_dtype ELSE Ivy("int32")

float_ambient ==
    LET def_dtype == default_dtype_from_stacks("False")
    IN  IF is_float_dtype(def_dtype) THEN def_dtype ELSE Ivy("float32")

\* Faulty variant: the 32-bit threshold compared with >=.
default_int_dtype_number_ge(input) ==
    IF NumGt(input, I64_MAX) /\ NotInf(input) /\ backend # "torch"
    THEN Ivy("uint64")
    ELSE IF (NumGt(input, I32_MAX) \/ (input.sub = "int" /\ ~input.neg
                                        /\ input.mag = I32_MAX.limbs))
            /\ NotInf(input)
    THEN Ivy("int64")
    ELSE int_ambient

\* default_int_dtype on a scalar number.
default_int_dtype_number(input) ==
    IF NumGt(input, I64_MAX) /\ NotInf(input) /\ backend # "torch"
    THEN Ivy("uint64")
    ELSE IF NumGt(input, I32_MAX) /\ NotInf(input)
    THEN Ivy("int64")
    ELSE int_ambient

\* default_int_dtype on a list, tuple or dict.
default_int_dtype_container(input) ==
    LET a64 == nested_indices_where(input,
                   [x \in Leaves(input) |-> AboveI64(x)])
        a32 == nested_indices_where(input,
                   [x \in Leaves(input) |-> AboveI32(x)])
    IN  IF a64 = "E" THEN Raise("TypeError")
        ELSE IF a64 = "T" THEN Ivy("uint64")
        ELSE IF a32 = "T" THEN Ivy("int64")
        ELSE int_ambient

default_int_dtype_ret(input) ==
    CASE input.kind = "none" ->
            IF default_int_dtype_stack = <<>>
            THEN int_ambient
            ELSE Top(default_int_dtype_stack)
      [] input.kind = "native_array" -> Ivy(input.dt)
      [] input.kind = "ndarray" -> Native(input.dt)
      [] input.kind = "list" -> default_int_dtype_container(input)
      [] input.kind = "number" -> default_int_dtype_number(input)
      [] OTHER -> Raise("UnboundLocalError")

default_int_dtype(input, int_dtype, as_native) ==
    IF exists(int_dtype)
    THEN IF as_native = "True" THEN as_native_dtype(int_dtype)
         ELSE IF as_native = "False" THEN IntDtype(as_ivy_dtype(int_dtype))
         ELSE int_dtype
    ELSE LET ret == default_int_dtype_ret(input)
         IN  IF as_native_or_False(as_native) = "True"
             THEN as_native_dtype(ret)
             ELSE IntDtype(as_ivy_dtype(ret))

default_float_dtype_ret(input) ==
    CASE input.kind = "none" ->
            IF default_float_dtype_stack = <<>>
            THEN float_ambient
            ELSE Top(default_float_dtype_stack)
      [] input.kind = "native_array" -> Ivy(input.dt)
      [] input.kind = "ndarray" -> Native(input.dt)
      [] input.kind = "list" ->
            LET c == nested_indices_where(input,
                         [x \in Leaves(input) |-> check_float64(x)])
            IN  IF c = "E" THEN Raise("ValueError")
                ELSE IF c = "T" THEN Ivy("float64")
                ELSE float_ambient
      [] input.kind = "number" ->
            LET c == check_float64(input)
            IN  IF c = "E" THEN Raise("ValueError")
                ELSE IF c = "T" THEN Ivy("float64")
                ELSE float_ambient
      [] OTHER -> Raise("UnboundLocalError")

default_float_dtype(input, float_dtype, as_native) ==
    IF exists(float_dtype)
    THEN IF as_native = "True" THEN as_native_dtype(float_dtype)
         ELSE IF as_native = "False" THEN FloatDtype(as_ivy_dtype(float_dtype))
         ELSE float_dtype
    ELSE LET ret == default_float_dtype_ret(input)
         IN  IF as_native_or_False(as_native) = "True"
             THEN as_native_dtype(ret)
             ELSE FloatDtype(as_ivy_dtype(ret))

\* Faulty variant: as_native False returns the dtype as passed.
default_dtype_explicit_raw(dtype, as_native) ==
    IF as_native = "True" THEN as_native_dtype(dtype) ELSE dtype

\* default_dtype given an explicit dtype.
default_dtype_explicit(dtype, as_native) ==
    IF as_native = "True" THEN as_native_dtype(dtype)
    ELSE IF as_native = "False" THEN as_ivy_dtype(dtype)
    ELSE dtype

default_dtype(dtype, item, as_native) ==
    IF exists(dtype)
    THEN default_dtype_explicit(dtype, as_native)
    ELSE LET native == as_native_or_False(as_native)
             empty  == item.kind = "list" /\ Len(item.elems) = 0
         IN  IF item.kind = "none" \/ empty
             THEN default_dtype_from_stacks(native)
             ELSE IF is_float_dtype_of(item) = "E" THEN Raise("DtypeError")
             ELSE IF is_float_dtype_of(item) = "T"
                  THEN default_float_dtype(item, None, native)
             ELSE IF is_int_dtype_of(item) = "T"
                  THEN default_int_dtype(item, None, native)
             ELSE IF native = "True" THEN as_native_dtype(Ivy("bool"))
             ELSE Ivy("bool")

\* ------------------------------------------------- set / unset of defaults

\* Faulty variant: the dtype is pushed as passed, not canonicalized.
set_default_dtype_raw(dtype) ==
    /\ default_dtype_stack' = Append(default_dtype_stack, dtype)
    /\ UNCHANGED <<default_float_dtype_stack, default_int_dtype_stack>>

set_default_dtype(dtype) ==
    LET d == as_ivy_dtype(dtype)
    IN  /\ default_dtype_stack' =
              IF IsRaise(d) THEN default_dtype_stack
              ELSE Append(default_dtype_stack, d)
        /\ UNCHANGED <<default_float_dtype_stack, default_int_dtype_stack>>

unset_default_dtype ==
    /\ default_dtype_stack' =
          IF default_dtype_stack # <<>> THEN Pop(default_dtype_stack)
          ELSE default_dtype_stack
    /\ UNCHANGED <<default_float_dtype_stack, default_int_dtype_stack>>

set_default_int_dtype(int_dtype) ==
    LET d == IntDtype(as_ivy_dtype(int_dtype))
    IN  /\ default_int_dtype_stack' =
              IF IsRaise(d) THEN default_int_dtype_stack
              ELSE Append(default_int_dtype_stack, d)
        /\ UNCHANGED <<default_dtype_stack, default_float_dtype_stack>>

\* Faulty variant: pop(0) instead of pop(-1).
unset_default_int_dtype_first ==
    /\ default_int_dtype_stack' =
          IF default_int_dtype_stack # <<>> THEN Tail(default_int_dtype_stack)
          ELSE default_int_dtype_stack
    /\ UNCHANGED <<default_dtype_stack, default_float_dtype_stack>>

unset_default_int_dtype ==
    /\ default_int_dtype_stack' =
          IF default_int_dtype_stack # <<>> THEN Pop(default_int_dtype_stack)
          ELSE default_int_dtype_stack
    /\ UNCHANGED <<default_dtype_stack, default_float_dtype_stack>>

\* Faulty variant: the float default pushed on the general stack.
set_default_float_dtype_general(float_dtype) ==
    LET d == FloatDtype(as_ivy_dtype(float_dtype))
    IN  /\ default_dtype_stack' =
              IF IsRaise(d) THEN default_dtype_stack
              ELSE Append(default_dtype_stack, d)
        /\ UNCHANGED <<default_float_dtype_stack, default_int_dtype_stack>>

set_default_float_dtype(float_dtype) ==
    LET d == FloatDtype(as_ivy_dtype(float_dtype))
    IN  /\ default_float_dtype_stack' =
              IF IsRaise(d) THEN default_float_dtype_stack
              ELSE Append(default_float_dtype_stack, d)
        /\ UNCHANGED <<default_dtype_stack, default_int_dtype_stack>>

unset_default_float_dtype ==
    /\ default_float_dtype_stack' =
          IF default_float_dtype_stack # <<>>
          THEN Pop(default_float_dtype_stack)
          ELSE default_float_dtype_stack
    /\ UNCHANGED <<default_dtype_stack, default_int_dtype_stack>>

\* The set / unset function of stack k.
SetDefault(k, dtype) ==
    CASE k = "dtype" -> set_default_dtype(dtype)
      [] k = "float" -> set_default_float_dtype(dtype)
      [] k = "int"   -> set_default_int_dtype(dtype)

UnsetDefault(k) ==
    CASE k = "dtype" -> unset_default_dtype
      [] k = "float" -> unset_default_float_dtype
      [] k = "int"   -> unset_default_int_dtype

\* What set_default_X(dtype) does for its caller: None, or the exception
\* of the failed canonicalization.
SetOutcome(dtype) == IF IsRaise(as_ivy_dtype(dtype)) THEN as_ivy_dtype(dtype) ELSE None

\* ------------------------------------------------------------ the guards

\* DefaultDtype / DefaultFloatDtype / DefaultIntDtype: __enter__ sets the
\* default of the guard's own stack.
Guard_enter(k, dtype) == SetDefault(k, dtype)

\* Faulty variant: every guard unsets the general stack.
Guard_exit_general(k) == UnsetDefault("dtype")

\* __exit__(exc_type, exc_val, exc_tb): unsets, then returns self.
Guard_exit(k) == UnsetDefault(k)

Guard_exit_return == "self"

\* The with statement swallows the exception when __exit__ returns a true
\* value; an object without __bool__ and __len__ is true.
Truthy(x) == x \notin {"None", "False"}

\* ------------------------------------------------------- bookkeeping

NoExc == "none"

NoFn == [has |-> FALSE, unsupported_dtypes |-> <<>>]

\* The last call made: its name, the stack it is about, its arguments, what
\* it returned, the stacks it found (pre), and for a call that closes a
\* scope the stacks and the defaults recorded when the scope was opened.
Call(op, k, dtype, input, as_native, ret) ==
    [op |-> op, k |-> k, dtype |-> dtype, input |-> input,
     as_native |-> as_native, ret |-> ret, fn |-> NoFn, tup |-> <<>>,
     pre |-> stacks, entry |-> <<>>, before |-> <<>>, exc |-> NoExc]

NoCall ==
    [Call("none", "", None, NoneV, "None", None) EXCEPT !.pre = <<>>]

\* What the three queries return with no argument.
Defaults ==
    <<default_dtype(None, NoneV, "None"),
      default_float_dtype(NoneV, None, "None"),
      default_int_dtype(NoneV, None, "None")>>

Frame(kind, k) ==
    [kind |-> kind, k |-> k, entry |-> stacks, before |-> Defaults]

Backends == {"numpy", "torch"}

Init ==
    /\ default_dtype_stack = <<>>
    /\ default_float_dtype_stack = <<>>
    /\ default_int_dtype_stack = <<>>
    /\ backend \in Backends
    /\ scopes = <<>>
    /\ exc = NoExc
    /\ last = NoCall

\* -------------------------------------------------------------- actions

\* set_default_X(dtype) called outside any tracked scope.
SetCall(k, dtype) ==
    /\ scopes = <<>> /\ exc = NoExc
    /\ TotalDepth < MaxDepth
    /\ SetDefault(k, dtype)
    /\ last' = Call("set", k, dtype, NoneV, "None", SetOutcome(dtype))
    /\ UNCHANGED <<backend, scopes, exc>>

\* unset_default_X() called outside any tracked scope, on an empty stack too.
UnsetCall(k) ==
    /\ scopes = <<>> /\ exc = NoExc
    /\ UnsetDefault(k)
    /\ last' = Call("unset", k, None, NoneV, "None", None)
    /\ UNCHANGED <<backend, scopes, exc>>

\* set_default_X(dtype) that a later unset_default_X() will match.
NestedSet(k, dtype) ==
    /\ exc = NoExc
    /\ TotalDepth < MaxDepth
    /\ ~IsRaise(as_ivy_dtype(dtype))
    /\ SetDefault(k, dtype)
    /\ scopes' = Append(scopes, Frame("set", k))
    /\ last' = Call("set", k, dtype, NoneV, "None", SetOutcome(dtype))
    /\ UNCHANGED <<backend, exc>>

\* The unset_default_X() matching the innermost open set_default_X.
NestedUnset ==
    /\ exc = NoExc
    /\ scopes # <<>> /\ Top(scopes).kind = "set"
    /\ UnsetDefault(Top(scopes).k)
    /\ scopes' = Pop(scopes)
    /\ last' = [Call("unset", Top(scopes).k, None, NoneV, "None", None)
                    EXCEPT !.entry = Top(scopes).entry,
                           !.before = Top(scopes).before]
    /\ UNCHANGED <<backend, exc>>

\* with DefaultX(dtype): __enter__. When it raises the body is not entered
\* and __exit__ is not called; inside another guard's body the exception is
\* that body's.
GuardEnter(k, dtype) ==
    /\ exc = NoExc
    /\ TotalDepth < MaxDepth
    /\ IF IsRaise(as_ivy_dtype(dtype)) /\ scopes # <<>>
       THEN Top(scopes).kind = "guard" ELSE TRUE
    /\ Guard_enter(k, dtype)
    /\ scopes' = IF IsRaise(as_ivy_dtype(dtype)) THEN scopes
                 ELSE Append(scopes, Frame("guard", k))
    /\ exc' = IF IsRaise(as_ivy_dtype(dtype)) /\ scopes # <<>>
              THEN as_ivy_dtype(dtype).name ELSE exc
    /\ last' = Call("__enter__", k, dtype, NoneV, "None", SetOutcome(dtype))
    /\ UNCHANGED backend

\* The body of the innermost guard raises, its own calls being balanced.
BodyRaise ==
    /\ exc = NoExc
    /\ scopes # <<>> /\ Top(scopes).kind = "guard"
    /\ exc' = "Error"
    /\ last' = Call("raise", Top(scopes).k, None, NoneV, "None", Raise("Error"))
    /\ UNCHANGED <<default_dtype_stack, default_float_dtype_stack,
                   default_int_dtype_stack, backend, scopes>>

\* The innermost guard's scope is left, normally or with exc in flight:
\* __exit__ runs, and its return value decides whether exc goes on.
GuardExit ==
    /\ scopes # <<>> /\ Top(scopes).kind = "guard"
    /\ Guard_exit(Top(scopes).k)
    /\ scopes' = Pop(scopes)
    /\ exc' = IF Truthy(Guard_exit_return) THEN NoExc ELSE exc
    /\ last' = [Call("__exit__", Top(scopes).k, None, NoneV, "None", None)
                    EXCEPT !.entry = Top(scopes).entry,
                           !.before = Top(scopes).before,
                           !.exc = exc]
    /\ UNCHANGED backend

QueryNames == {"default_dtype", "default_float_dtype", "default_int_dtype"}

\* The named query with the given arguments.
Query(op, dtype, input, as_native) ==
    CASE op = "default_dtype" -> default_dtype(dtype, input, as_native)
      [] op = "default_float_dtype" -> default_float_dtype(input, dtype, as_native)
      [] op = "default_int_dtype" -> default_int_dtype(input, dtype, as_native)

\* default_X() with no argument, in any state of the stacks.
DefaultCall(op) ==
    /\ exc = NoExc
    /\ last' = Call(op, "", None, NoneV, "None", Query(op, None, NoneV, "None"))
    /\ UNCHANGED <<default_dtype_stack, default_float_dtype_stack,
                   default_int_dtype_stack, backend, scopes, exc>>

Next ==
    \/ \E k \in StackKinds, d \in SetArgs : SetCall(k, d)
    \/ \E k \in StackKinds : UnsetCall(k)
    \/ \E k \in StackKinds, d \in SetArgs : NestedSet(k, d)
    \/ NestedUnset
    \/ \E k \in StackKinds, d \in SetArgs : GuardEnter(k, d)
    \/ BodyRaise
    \/ GuardExit
    \/ \E op \in QueryNames : DefaultCall(op)

Spec == Init /\ [][Next]_vars

\* ------------------------------------------- per-function dtype support

\* ivy.valid_dtypes / ivy.invalid_dtypes of the active backend.
valid_dtypes ==
    IF backend = "torch"
    THEN <<"int8", "int16", "int32", "int64", "uint8", "bfloat16",
           "float16", "float32", "float64", "bool">>
    ELSE <<"int8", "int16", "int32", "int64", "uint8", "uint16", "uint32",
           "uint64", "float16", "float32", "float64", "bool">>

invalid_dtypes ==
    IF backend = "torch" THEN <<"uint16", "uint32", "uint64">>
    ELSE <<"bfloat16">>

Range(t) == {t[i] : i \in 1..Len(t)}

\* list.remove(d): drops the first occurrence of d.
RECURSIVE ListRemove(_, _)
ListRemove(l, d) ==
    IF l = <<>> THEN <<>>
    ELSE IF Head(l) = d THEN Tail(l)
    ELSE <<Head(l)>> \o ListRemove(Tail(l), d)

\* for d in ds: if d in valid: valid.remove(d)
RECURSIVE RemoveEach(_, _)
RemoveEach(valid, ds) ==
    IF ds = <<>> THEN valid
    ELSE RemoveEach(IF Head(ds) \in Range(valid)
                    THEN ListRemove(valid, Head(ds)) ELSE valid,
                    Tail(ds))

\* fn is [has, unsupported_dtypes]: whether it carries the attribute, and
\* the attribute. The backend argument is not read.
function_unsupported_dtypes(fn, bk) ==
    IF fn.has THEN fn.unsupported_dtypes \o invalid_dtypes
    ELSE invalid_dtypes

\* Faulty variant: the function's own annotation is not removed.
function_supported_dtypes_no_annotation(fn, bk) ==
    RemoveEach(valid_dtypes, invalid_dtypes)

\* The tuple goes through as_native_dtype, which leaves a tuple as it is.
function_supported_dtypes(fn, bk) ==
    RemoveEach(valid_dtypes, function_unsupported_dtypes(fn, bk))

Fns ==
    {NoFn,
     [has |-> TRUE, unsupported_dtypes |-> <<>>],
     [has |-> TRUE, unsupported_dtypes |-> <<"float16">>],
     [has |-> TRUE, unsupported_dtypes |-> <<"uint16", "float16", "int8">>]}

\* --------------------------------------- the queries on sampled arguments

\* Largest total number of elements of the three stacks in InitInfer.
MaxStack == 2

StackElems == {Ivy("int64"), Ivy("float64")}

SeqsUpTo(n) == UNION {[1..m -> StackElems] : m \in 0..n}

QueryDtypes == {None, Ivy("int64"), Native("float16"),
                [form |-> "str", name |-> "bogus"]}

AsNativeFlags == {"None", "True", "False"}

I5 == IntV(FALSE, <<5>>)

Values ==
    {NoneV,
     I5,
     IntV(TRUE, <<5>>),
     IntV(FALSE, <<2, 147483647>>),
     IntV(FALSE, <<2, 147483648>>),
     IntV(FALSE, <<9, 223372036, 854775807>>),
     IntV(FALSE, <<9, 223372036, 854775808>>),
     IntV(TRUE, <<9, 223372036, 854775808>>),
     FloatV(FALSE, 15000000, 0),
     FloatV(FALSE, 16777217, 7),
     FloatV(FALSE, 25000000, 9),
     FloatV(FALSE, 35000000, 38),
     FloatV(TRUE, 15000000, 40),
     FloatV(FALSE, 10000000, 22),
     FloatV(FALSE, 15000000, 19),
     InfV(FALSE),
     InfV(TRUE),
     NanV,
     ListV(<<>>),
     ListV(<<I5, I5, IntV(FALSE, <<9, 223372036, 854775808>>)>>),
     ListV(<<IntV(FALSE, <<9, 223372036, 854775808>>), I5>>),
     ListV(<<I5, ListV(<<IntV(FALSE, <<2, 147483648>>)>>)>>),
     ListV(<<ListV(<<FloatV(FALSE, 15000000, 0)>>), I5>>),
     FloatV(TRUE, 35000000, 38),
     ListV(<<I5, ListV(<<FloatV(TRUE, 15000000, 40)>>)>>),
     NativeArrayV("int16"),
     NdArrayV("float64"),
     StrV}

InitInfer ==
    /\ default_dtype_stack \in SeqsUpTo(MaxStack)
    /\ default_float_dtype_stack \in SeqsUpTo(MaxStack)
    /\ default_int_dtype_stack \in SeqsUpTo(MaxStack)
    /\ TotalDepth <= MaxStack
    /\ backend \in Backends
    /\ scopes = <<>>
    /\ exc = NoExc
    /\ last = NoCall

\* default_dtype / default_float_dtype / default_int_dtype on any arguments.
InferCall(op, dtype, input, as_native) ==
    /\ last.op = "none"
    /\ last' = Call(op, "", dtype, input, as_native,
                    Query(op, dtype, input, as_native))
    /\ UNCHANGED <<default_dtype_stack, default_float_dtype_stack,
                   default_int_dtype_stack, backend, scopes, exc>>

SupportedCall(fn, bk) ==
    /\ last.op = "none"
    /\ last' = [Call("function_supported_dtypes", "", None, NoneV, "None", None)
                    EXCEPT !.fn = fn, !.tup = function_supported_dtypes(fn, bk)]
    /\ UNCHANGED <<default_dtype_stack, default_float_dtype_stack,
                   default_int_dtype_stack, backend, scopes, exc>>

UnsupportedCall(fn, bk) ==
    /\ last.op = "none"
    /\ last' = [Call("function_unsupported_dtypes", "", None, NoneV, "None", None)
                    EXCEPT !.fn = fn, !.tup = function_unsupported_dtypes(fn, bk)]
    /\ UNCHANGED <<default_dtype_stack, default_float_dtype_stack,
                   default_int_dtype_stack, backend, scopes, exc>>

NextInfer ==
    \/ \E op \in QueryNames, d \in QueryDtypes, v \in Values,
          n \in AsNativeFlags : InferCall(op, d, v, n)
    \/ \E fn \in Fns, bk \in Backends : SupportedCall(fn, bk)
    \/ \E fn \in Fns, bk \in Backends : UnsupportedCall(fn, bk)

SpecInfer == InitInfer /\ [][NextInfer]_vars

\* ================================================================ claims

KindIndex(k) == CASE k = "dtype" -> 1 [] k = "float" -> 2 [] k = "int" -> 3

NoArgs == last.dtype = None /\ last.input = NoneV /\ last.as_native = "None"

\* C1: when an unset_default_X closes the set_default_X it matches, after
\* any strictly nested balanced sequence in between, the three stacks are
\* what they were before that set, and default_dtype(), default_float_dtype()
\* and default_int_dtype() return what they returned before it.
C1_StackDiscipline ==
    (last.op = "unset" /\ last.before # <<>>) =>
        (stacks = last.entry /\ Defaults = last.before)

\* An inner pair has been closed inside an outer set that is still open, on
\* top of contents that were there before.
C1_Witness ==
    /\ last.op = "unset" /\ last.before # <<>>
    /\ scopes # <<>> /\ Top(scopes).kind = "set"
    /\ Top(scopes).entry # <<<<>>, <<>>, <<>>>>

\* C2: when a guard's scope is left, on normal exit and on error exit, the
\* three stacks are what they were when the guard was entered.
C2_GuardRestores == last.op = "__exit__" => stacks = last.entry

\* An inner guard left on error exit, inside an open scope.
C2_Witness ==
    /\ last.op = "__exit__" /\ last.exc # NoExc
    /\ scopes # <<>>
    /\ last.entry # <<<<>>, <<>>, <<>>>>

\* C3: unset_default_X does not raise; on an empty stack it leaves the three
\* stacks unchanged, on a non-empty stack it removes the last element of its
\* own stack and nothing else.
C3_UnsetPops ==
    last.op = "unset" =>
        /\ ~IsRaise(last.ret)
        /\ \A j \in 1..3 :
              stacks[j] = IF j = KindIndex(last.k) /\ last.pre[j] # <<>>
                          THEN SubSeq(last.pre[j], 1, Len(last.pre[j]) - 1)
                          ELSE last.pre[j]

\* unset on an empty stack while another stack holds elements.
C3_Witness ==
    /\ last.op = "unset"
    /\ last.pre[KindIndex(last.k)] = <<>>
    /\ stacks # <<<<>>, <<>>, <<>>>>

\* What the claims call the defaults, written from their text.
ExpectedDefault ==
    IF default_dtype_stack # <<>> THEN Top(default_dtype_stack)
    ELSE IF default_float_dtype_stack # <<>> THEN Top(default_float_dtype_stack)
    ELSE Ivy("float32")

ExpectedFloatDefault ==
    IF default_float_dtype_stack # <<>> THEN Top(default_float_dtype_stack)
    ELSE IF NameHasFloat(ExpectedDefault.name) THEN ExpectedDefault
    ELSE Ivy("float32")

ExpectedIntDefault ==
    IF default_int_dtype_stack # <<>> THEN Top(default_int_dtype_stack)
    ELSE IF NameHasInt(ExpectedDefault.name) THEN ExpectedDefault
    ELSE Ivy("int32")

\* C4 as stated: with an explicit dtype the result is the canonical form of
\* the dtype, or its native form when as_native is True, for every value of
\* as_native, whatever the stacks and the representative value.
C4_ExplicitCanonical ==
    (last.op \in QueryNames /\ exists(last.dtype)) =>
        last.ret = IF last.as_native = "True"
                   THEN as_native_dtype(last.dtype)
                   ELSE as_ivy_dtype(last.dtype)

\* C4 amended: with an explicit dtype the result is its native form when
\* as_native is True, its canonical form when as_native is False, and the
\* dtype as it was passed when as_native is not given; in each case whatever
\* the stacks and the representative value.
C4_ExplicitShortCircuit ==
    (last.op \in QueryNames /\ exists(last.dtype)) =>
        last.ret = CASE last.as_native = "True" -> as_native_dtype(last.dtype)
                     [] last.as_native = "False" -> as_ivy_dtype(last.dtype)
                     [] OTHER -> last.dtype

\* A native dtype passed without as_native, next to a representative value
\* and non-empty stacks, comes back as it was passed.
C4_Witness ==
    /\ last.op = "default_int_dtype"
    /\ last.dtype = Native("float16") /\ last.as_native = "None"
    /\ last.input # NoneV
    /\ default_int_dtype_stack # <<>>
    /\ last.ret = Native("float16")

\* C5: with no argument, default_dtype() is the top of the general stack,
\* else the top of the float stack, else float32; default_float_dtype() is
\* the top of the float stack, else default_dtype() when floating, else
\* float32; default_int_dtype() is the top of the int stack, else
\* default_dtype() when integer, else int32.
C5_FallbackOrder ==
    /\ (last.op = "default_dtype" /\ NoArgs) => last.ret = ExpectedDefault
    /\ (last.op = "default_float_dtype" /\ NoArgs) =>
            last.ret = ExpectedFloatDefault
    /\ (last.op = "default_int_dtype" /\ NoArgs) => last.ret = ExpectedIntDefault

\* default_dtype() answered from the float stack, the general one empty.
C5_Witness ==
    /\ last.op = "default_dtype" /\ NoArgs
    /\ default_dtype_stack = <<>>
    /\ default_float_dtype_stack # <<>>
    /\ last.ret = Ivy("float64")

\* C6: on a backend that permits uint64, for a scalar number v that is not
\* an infinity and no explicit dtype, default_int_dtype(input=v) is uint64
\* when v > 9223372036854775807, int64 when 2147483647 < v <=
\* 9223372036854775807, and otherwise default_dtype() when that is an
\* integer dtype, else int32 (in native form when as_native is True).
C6_IntThresholds ==
    (/\ last.op = "default_int_dtype" /\ last.dtype = None
     /\ last.input.kind = "number" /\ last.input.sub # "inf"
     /\ backend # "torch") =>
        as_ivy_dtype(last.ret) =
            IF NumGt(last.input, I64_MAX) THEN Ivy("uint64")
            ELSE IF NumGt(last.input, I32_MAX) THEN Ivy("int64")
            ELSE IF NameHasInt(ExpectedDefault.name) THEN ExpectedDefault
            ELSE Ivy("int32")

\* The boundary value 2147483647 gets the fallback int32, not int64.
C6_Witness ==
    /\ last.op = "default_int_dtype" /\ last.dtype = None
    /\ last.input = IntV(FALSE, <<2, 147483647>>)
    /\ backend # "torch"
    /\ last.ret = Ivy("int32")

\* C7 as stated: a container with an element above a threshold gets the dtype
\* a scalar of that element gets, and on torch default_int_dtype returns
\* uint64 for no input.
C7_ContainerAsScalar ==
    (last.op = "default_int_dtype" /\ last.dtype = None) =>
        /\ backend = "torch" => as_ivy_dtype(last.ret) # Ivy("uint64")
        /\ last.input.kind = "list" =>
              \A x \in Leaves(last.input) :
                  (x.kind = "number" /\ NumGt(x, I64_MAX) /\ NotInf(x)) =>
                      last.ret = default_int_dtype(x, None, last.as_native)

\* C8 as stated: the two results share no dtype and their union is exactly
\* the valid-dtype set of the backend.
C8_PartitionOfValid ==
    last.op = "function_supported_dtypes" =>
        LET sup == Range(last.tup)
            uns == Range(function_unsupported_dtypes(last.fn, backend))
        IN  /\ sup \cap uns = {}
            /\ sup \cup uns = Range(valid_dtypes)

\* C8 amended: the two results share no dtype, every dtype of the active
\* backend's valid-dtype set is in one of them, the supported result holds
\* valid dtypes only, and the unsupported result is the function's
\* annotation (when it has one) together with the backend's invalid dtypes,
\* so that the union is the valid set plus the invalid set plus the
\* annotation.
C8_SupportedComplement ==
    last.op = "function_supported_dtypes" =>
        LET sup == Range(last.tup)
            uns == Range(function_unsupported_dtypes(last.fn, backend))
            ann == IF last.fn.has THEN Range(last.fn.unsupported_dtypes) ELSE {}
        IN  /\ sup \cap uns = {}
            /\ sup \subseteq Range(valid_dtypes)
            /\ Range(valid_dtypes) \subseteq sup \cup uns
            /\ uns = ann \cup Range(invalid_dtypes)
            /\ sup \cup uns = Range(valid_dtypes) \cup Range(invalid_dtypes) \cup ann

\* A function whose annotation names a valid dtype, which is then missing
\* from the supported result.
C8_Witness ==
    /\ last.op = "function_supported_dtypes"
    /\ last.fn.has /\ "float16" \in Range(last.fn.unsupported_dtypes)
    /\ "float16" \notin Range(last.tup)
    /\ "float32" \in Range(last.tup)

\* C9 as stated: an integer not above 2147483647 gets what default_int_dtype()
\* returns, and a float that passes the float32 checks gets what
\* default_float_dtype() returns, in every state of the stacks.
C9_InputFallsBackToStack ==
    /\ (/\ last.op = "default_int_dtype" /\ last.dtype = None
        /\ last.input.kind = "number" /\ last.input.sub = "int"
        /\ ~NumGt(last.input, I32_MAX)) =>
            last.ret = default_int_dtype(NoneV, None, last.as_native)
    /\ (/\ last.op = "default_float_dtype" /\ last.dtype = None
        /\ last.input.kind = "number" /\ last.input.sub = "float"
        /\ check_float64(last.input) = "F") =>
            last.ret = default_float_dtype(NoneV, None, last.as_native)

\* C10 as stated: with a representative value and no explicit dtype,
\* default_int_dtype and default_float_dtype return a dtype and do not raise.
C10_InferenceNeverRaises ==
    (/\ last.op \in {"default_int_dtype", "default_float_dtype"}
     /\ last.dtype = None /\ last.input # NoneV) =>
        ~IsRaise(last.ret)

\* abs(x) > T
AbsGt(x, T) == NumGt([x EXCEPT !.neg = FALSE], T)

\* C11 as stated: with no explicit dtype, default_float_dtype(input=v) is
\* float64 for every finite v with abs(v) > 3.4028235e38, of either sign,
\* given as a scalar or as an element of a nested container; a non-finite
\* scalar (NaN, +infinity, -infinity) gets the ambient default when that is
\* a floating dtype, else float32.
C11_MagnitudeNotSign ==
    (/\ last.op = "default_float_dtype" /\ last.dtype = None
     /\ last.input.kind \in {"number", "list"}) =>
        /\ \A x \in Leaves(last.input) :
              (/\ x.kind = "number" /\ x.sub \in {"int", "float"}
               /\ AbsGt(x, F32_MAX)) =>
                    as_ivy_dtype(last.ret) = Ivy("float64")
        /\ (last.input.kind = "number" /\ last.input.sub \in {"inf", "nan"}) =>
              as_ivy_dtype(last.ret) =
                  IF NameHasFloat(ExpectedDefault.name) THEN ExpectedDefault
                  ELSE Ivy("float32")

\* C12 as stated: when the code wrapped by a guard raises, __exit__ pops the
\* guard's stack back to what it was at entry, and the same error is still
\* in flight after __exit__, on its way to the caller of the guarded block.
C12_ErrorReachesCaller ==
    (last.op = "__exit__" /\ last.exc # NoExc) =>
        (stacks = last.entry /\ exc = last.exc)

\* C13: in every reachable state every element of the three stacks is a
\* canonical dtype; a set_default_X (called directly or by a guard's
\* __enter__) pushes the canonical form of its argument on its own stack and
\* nothing else, and when the canonicalization fails it raises and leaves
\* the three stacks unchanged.
C13_StacksCanonical ==
    /\ \A j \in 1..3 : \A i \in 1..Len(stacks[j]) :
          /\ stacks[j][i].form = "ivy"
          /\ stacks[j][i].name \in AllDtypeNames
          /\ as_ivy_dtype(stacks[j][i]) = stacks[j][i]
    /\ last.op \in {"set", "__enter__"} =>
          IF IsRaise(as_ivy_dtype(last.dtype))
          THEN IsRaise(last.ret) /\ stacks = last.pre
          ELSE /\ ~IsRaise(last.ret)
               /\ \A j \in 1..3 :
                     stacks[j] = IF j = KindIndex(last.k)
                                 THEN Append(last.pre[j], as_ivy_dtype(last.dtype))
                                 ELSE last.pre[j]

\* A native dtype handed to set_default_X sits on the stack in canonical
\* form, on top of an earlier element.
C13_Witness ==
    /\ last.op = "set" /\ last.dtype = Native("float64")
    /\ Len(stacks[KindIndex(last.k)]) >= 2
    /\ Top(stacks[KindIndex(last.k)]) = Ivy("float64")

====
